---------------------------- MODULE Spec2Model ----------------------------
(***************************************************************************)
(* Model of the HubSpot + Resend proof of concept.                         *)
(*                                                                         *)
(*   - the diagnostic flow: runDiagnosticFlow and its four step functions  *)
(*     createContact, createDeal, associateDealToContact and               *)
(*     sendConfirmationEmail;                                              *)
(*   - the webhook route: POST and GET on the in-memory webhookStorage;    *)
(*   - the test email action: sendTestEmail.                               *)
(*                                                                         *)
(* An async function is cut at its awaits: everything a handler does       *)
(* between two awaits is one action, and what the awaited promise settles  *)
(* to (a response, a parsed body, a rejection) is the action's input.      *)
(***************************************************************************)
EXTENDS Integers, Sequences, FiniteSets, TLC

VARIABLES
    HUBSPOT_ACCESS_TOKEN,   \* process.env.HUBSPOT_ACCESS_TOKEN
    RESEND_API_KEY,         \* process.env.RESEND_API_KEY
    pc,                     \* the await at which the invocation of runDiagnosticFlow stands
    formData,               \* argument of runDiagnosticFlow
    notificationEmail,      \* argument of runDiagnosticFlow
    steps,                  \* const steps: StepResult[]
    contactId,              \* const contactId
    dealId,                 \* const dealId
    dealName,               \* const dealName
    response,               \* the Response the step function holds after await fetch
    body,                   \* what response.json() of that step function settled to
    result,                 \* the DiagnosticFlowResult the invocation returned
    calls,                  \* the external calls the invocation has issued, in order
    pending,                \* indices in calls of the calls whose result is awaited
    webhookStorage,         \* const webhookStorage: WebhookEntry[]
    parsing,                \* POST requests standing at await request.json(), each with
                            \* its serial number and whether its body is malformed
    arrived,                \* number of POST requests received so far
    uuids,                  \* number of ids crypto.randomUUID() has handed out
    clock,                  \* the wall clock new Date() reads
    lastResponse,           \* the latest response a webhook handler sent
    testToEmail,            \* toEmail, the argument of sendTestEmail
    testPc,                 \* the await at which the invocation of sendTestEmail stands
    testCalls,              \* the calls to the email provider that invocation has issued
    testResult              \* the ResendResponse the invocation returned

flowVars == <<pc, formData, notificationEmail, steps, contactId, dealId, dealName,
              response, body, result, calls, pending>>
envVars == <<HUBSPOT_ACCESS_TOKEN, RESEND_API_KEY>>
webhookVars == <<webhookStorage, parsing, arrived, uuids, clock, lastResponse>>
testVars == <<testToEmail, testPc, testCalls, testResult>>
vars == <<envVars, flowVars, webhookVars, testVars>>

---------------------------------------------------------------------------
(* Bounds of the model.                                                    *)

\* how many distinct record ids the CRM may hand out
NumIds == 2
\* how many POST requests reach the webhook route in one run
MaxPosts == 6
\* how many POST requests may stand at their body parse at once
MaxParsing == 2
\* the last instant of the wall clock
MaxClock == 1

---------------------------------------------------------------------------
(* JavaScript values.                                                      *)

\* the value undefined (a missing property, an unset environment variable)
Undefined == "<undefined>"
\* the value null (a JSON body null, the unused half of Resend's {data, error})
Null == [null |-> TRUE]
\* the object {}
EmptyObject == <<>>

\* truthiness of a string-or-undefined value, as !x and x || y test it
Truthy(v) == v # Undefined /\ v # ""

\* obj.f for an object obj: undefined when the property is missing
Get(obj, f) == IF f \in DOMAIN obj THEN obj[f] ELSE Undefined

\* obj.properties?.f
GetProperty(obj, f) ==
    IF "properties" \in DOMAIN obj /\ f \in DOMAIN obj.properties
    THEN obj.properties[f]
    ELSE Undefined

\* ${v} in a template literal
Str(v) == IF v = Undefined THEN "undefined" ELSE v

\* a || b
OrElse(a, b) == IF Truthy(a) THEN a ELSE b

\* what the engine throws on data.message when data is null
TypeErrorOfNull == [isError |-> TRUE, message |-> "Cannot read properties of null"]

\* error instanceof Error ? error.message : fallback
CatchMessage(error, fallback) == IF error.isError THEN error.message ELSE fallback

---------------------------------------------------------------------------
(* What the outside world may send: the inputs of the actions.             *)

\* ids the CRM hands out for contacts and deals
Ids == {ToString(100 + i) : i \in 1..NumIds}

\* values an environment variable may hold: unset, empty, set
EnvValues == {Undefined, "", "secret"}

\* form contents the page may submit (no validation on the server side)
FormInputs ==
    { [email |-> "Ann@x.io", firstName |-> "Ann", lastName |-> "Lee"],
      [email |-> "", firstName |-> "", lastName |-> ""] }

\* notification addresses the page may submit
NotificationEmails == {"ops@x.io", ""}

\* what a rejected promise carries
NetworkError == [isError |-> TRUE, message |-> "fetch failed"]
SyntaxError == [isError |-> TRUE, message |-> "Unexpected token < in JSON at position 0"]

\* what await fetch(...) settles to: a rejection, or a Response with ok/status
FetchOutcomes(okStatus) ==
    { [kind |-> "rejected", error |-> NetworkError, ok |-> FALSE, status |-> 0] }
    \cup { [kind |-> "response", error |-> NetworkError, ok |-> TRUE, status |-> okStatus] }
    \cup { [kind |-> "response", error |-> NetworkError, ok |-> FALSE, status |-> s] : s \in {409, 500} }

\* bodies of an error response of the CRM
ErrorBodies ==
    { [status |-> "error", message |-> "Contact already exists"],
      [status |-> "error", message |-> ""],
      [status |-> "error"],
      EmptyObject,
      Null }

\* the email address as the CRM stores it (lower case)
CrmEmail(email) == IF email = "Ann@x.io" THEN "ann@x.io" ELSE email

\* bodies of a success response to contact creation
ContactBodies(sent) ==
    { [id |-> i, properties |-> [email |-> e, firstname |-> sent.firstName, lastname |-> sent.lastName]] :
          i \in Ids, e \in {sent.email, CrmEmail(sent.email)} }
    \cup { [id |-> i] : i \in Ids }
    \cup { EmptyObject, Null }

\* bodies of a success response to deal creation
DealBodies ==
    { [id |-> i, properties |-> [pipeline |-> "default", dealstage |-> "appointmentscheduled"]] : i \in Ids }
    \cup { [id |-> i] : i \in Ids }
    \cup { EmptyObject, Null }

\* what await response.json() settles to: a rejection, or the parsed body
JsonOutcomes(bodies) ==
    { [kind |-> "rejected", error |-> SyntaxError, value |-> Null] }
    \cup { [kind |-> "value", error |-> SyntaxError, value |-> b] : b \in bodies }

\* addresses the page may hand to sendTestEmail (no validation before the call)
Addresses == {Undefined, "", "ops", "x.io", "@", "a@b", "ops@x.io"}

\* the characters of an address
Chars(a) ==
    CASE a = "" -> <<>>
      [] a = "ops" -> <<"o", "p", "s">>
      [] a = "x.io" -> <<"x", ".", "i", "o">>
      [] a = "@" -> <<"@">>
      [] a = "a@b" -> <<"a", "@", "b">>
      [] a = "ops@x.io" -> <<"o", "p", "s", "@", "x", ".", "i", "o">>

\* a.includes(c)
Includes(a, c) == \E i \in 1..Len(Chars(a)) : Chars(a)[i] = c

\* what await import("resend") settles to
ImportOutcomes == {"loaded", "rejected"}

\* what await resend.emails.send(...) settles to: a rejection or {data, error}
SendOutcomes ==
    { [kind |-> "rejected", thrown |-> NetworkError, data |-> Null, error |-> Null] }
    \cup { [kind |-> "resolved", thrown |-> NetworkError, data |-> d, error |-> Null] :
              d \in {[id |-> "em_1"], [id |-> "em_2"], Null} }
    \cup { [kind |-> "resolved", thrown |-> NetworkError, data |-> Null, error |-> e] :
              e \in { [name |-> "validation_error", message |-> "Invalid to field"],
                      [name |-> "application_error", message |-> ""] } }

---------------------------------------------------------------------------
(* The four step functions, from the awaited value to the StepResult.      *)
(* A StepResult is a record with step, success, message and, when the code *)
(* sets it, data.                                                          *)

\* getAccessToken()
getAccessToken == HUBSPOT_ACCESS_TOKEN

\* the request createContact sends
ContactCall(fd) ==
    [ api |-> "contact-create", token |-> getAccessToken,
      properties |-> [email |-> fd.email, firstname |-> fd.firstName, lastname |-> fd.lastName] ]

\* createContact: the catch block
createContactCaught(error) ==
    [ step |-> "Create Contact", success |-> FALSE,
      message |-> CatchMessage(error, "Failed to create contact") ]

\* a slip: the body defaulted to {} when it does not parse, as the
\* association step does
createContactParsedTolerant(rsp, parsed) ==
    LET data == IF parsed.kind = "rejected" THEN EmptyObject ELSE parsed.value IN
    IF data = Null THEN createContactCaught(TypeErrorOfNull)
    ELSE IF ~rsp.ok
    THEN [ step |-> "Create Contact", success |-> FALSE,
           message |-> OrElse(Get(data, "message"),
                              "HubSpot API error: " \o ToString(rsp.status)),
           data |-> data ]
    ELSE [ step |-> "Create Contact", success |-> TRUE,
           message |-> "Contact created (ID: " \o Str(Get(data, "id")) \o ")",
           data |-> [ id |-> Get(data, "id"),
                      email |-> GetProperty(data, "email"),
                      firstName |-> GetProperty(data, "firstname"),
                      lastName |-> GetProperty(data, "lastname") ] ]

\* createContact: from const data = await response.json() to the return
createContactParsed(rsp, parsed) ==
    IF parsed.kind = "rejected" THEN createContactCaught(parsed.error)
    ELSE LET data == parsed.value IN
         IF data = Null THEN createContactCaught(TypeErrorOfNull)
         ELSE IF ~rsp.ok
         THEN [ step |-> "Create Contact", success |-> FALSE,
                message |-> OrElse(Get(data, "message"),
                                   "HubSpot API error: " \o ToString(rsp.status)),
                data |-> data ]
         ELSE [ step |-> "Create Contact", success |-> TRUE,
                message |-> "Contact created (ID: " \o Str(Get(data, "id")) \o ")",
                data |-> [ id |-> Get(data, "id"),
                           email |-> GetProperty(data, "email"),
                           firstName |-> GetProperty(data, "firstname"),
                           lastName |-> GetProperty(data, "lastname") ] ]

\* const dealName = Diagnostic - ${firstName} ${lastName}
DealNameOf(firstName, lastName) == "Diagnostic - " \o firstName \o " " \o lastName

\* the request createDeal sends
DealCall(firstName, lastName) ==
    [ api |-> "deal-create", token |-> getAccessToken,
      properties |-> [ dealname |-> DealNameOf(firstName, lastName), pipeline |-> "default",
                       dealstage |-> "appointmentscheduled", amount |-> "0" ] ]

\* a slip: the catch block copied from createContact with its label
createDealCaughtCopied(error) ==
    [ step |-> "Create Contact", success |-> FALSE,
      message |-> CatchMessage(error, "Failed to create contact") ]

\* createDeal: the catch block
createDealCaught(error) ==
    [ step |-> "Create Deal", success |-> FALSE,
      message |-> CatchMessage(error, "Failed to create deal") ]

\* createDeal: from const data = await response.json() to the return
createDealParsed(rsp, parsed, firstName, lastName) ==
    IF parsed.kind = "rejected" THEN createDealCaught(parsed.error)
    ELSE LET data == parsed.value IN
         IF data = Null THEN createDealCaught(TypeErrorOfNull)
         ELSE IF ~rsp.ok
         THEN [ step |-> "Create Deal", success |-> FALSE,
                message |-> OrElse(Get(data, "message"),
                                   "HubSpot API error: " \o ToString(rsp.status)),
                data |-> data ]
         ELSE [ step |-> "Create Deal", success |-> TRUE,
                message |-> "Deal created (ID: " \o Str(Get(data, "id")) \o ", Name: \""
                            \o DealNameOf(firstName, lastName) \o "\")",
                data |-> [ id |-> Get(data, "id"),
                           name |-> DealNameOf(firstName, lastName),
                           pipeline |-> GetProperty(data, "pipeline"),
                           dealstage |-> GetProperty(data, "dealstage") ] ]

\* a slip: the two ids in each other's place
AssociateCallSwapped(dId, cId) ==
    [ api |-> "associate", token |-> getAccessToken, dealId |-> cId, contactId |-> dId,
      url |-> "/crm/v3/objects/deals/" \o Str(cId) \o "/associations/contacts/"
              \o Str(dId) \o "/deal_to_contact" ]

\* the request associateDealToContact sends
AssociateCall(dId, cId) ==
    [ api |-> "associate", token |-> getAccessToken, dealId |-> dId, contactId |-> cId,
      url |-> "/crm/v3/objects/deals/" \o Str(dId) \o "/associations/contacts/"
              \o Str(cId) \o "/deal_to_contact" ]

\* associateDealToContact: the catch block
associateCaught(error) ==
    [ step |-> "Associate Deal to Contact", success |-> FALSE,
      message |-> CatchMessage(error, "Failed to associate deal to contact") ]

\* associateDealToContact: the return after an ok response (the body is not read)
associateOk(dId, cId) ==
    [ step |-> "Associate Deal to Contact", success |-> TRUE,
      message |-> "Deal " \o Str(dId) \o " associated to Contact " \o Str(cId),
      data |-> [dealId |-> dId, contactId |-> cId] ]

\* associateDealToContact: await response.json().catch(() => ({})) to the return
associateFailed(rsp, parsed) ==
    LET data == IF parsed.kind = "rejected" THEN EmptyObject ELSE parsed.value IN
    IF data = Null THEN associateCaught(TypeErrorOfNull)
    ELSE [ step |-> "Associate Deal to Contact", success |-> FALSE,
           message |-> OrElse(Get(data, "message"),
                              "HubSpot API error: " \o ToString(rsp.status)),
           data |-> data ]

\* the request sendConfirmationEmail hands to resend.emails.send
EmailCall(toEmail, contactData, dealData) ==
    [ api |-> "email-send", key |-> RESEND_API_KEY, to |-> toEmail,
      subject |-> "QuantaLynk Diagnostic - Results for " \o contactData.firstName,
      contact |-> contactData, deal |-> dealData ]

\* sendConfirmationEmail: the return when RESEND_API_KEY is falsy
sendEmailNoKey ==
    [ step |-> "Send Confirmation Email", success |-> FALSE,
      message |-> "Resend API key is not configured" ]

\* sendConfirmationEmail: from await resend.emails.send(...) to the return
sendEmailSettled(sent, toEmail) ==
    IF sent.kind = "rejected"
    THEN [ step |-> "Send Confirmation Email", success |-> FALSE,
           message |-> CatchMessage(sent.thrown, "Failed to send email") ]
    ELSE IF sent.error # Null
    THEN [ step |-> "Send Confirmation Email", success |-> FALSE,
           message |-> OrElse(Get(sent.error, "message"), "Failed to send email"),
           data |-> sent.error ]
    ELSE [ step |-> "Send Confirmation Email", success |-> TRUE,
           message |-> "Confirmation email sent to " \o toEmail,
           data |-> [ id |-> IF sent.data = Null THEN Undefined ELSE Get(sent.data, "id"),
                      sentTo |-> toEmail ] ]

\* result.data?.id
DataId(stepResult) ==
    IF "data" \in DOMAIN stepResult THEN Get(stepResult.data, "id") ELSE Undefined

\* result.data?.name
DataName(stepResult) ==
    IF "data" \in DOMAIN stepResult THEN Get(stepResult.data, "name") ELSE Undefined

---------------------------------------------------------------------------
(* runDiagnosticFlow.  A DiagnosticFlowResult is a record with success,    *)
(* message, steps and, when the code sets it, summary.                     *)

\* the value of result while the invocation has not returned
NoResult == [returned |-> FALSE]

\* the value of response while no Response is held
NoResponse == [ok |-> FALSE, status |-> 0]

\* the value of body while response.json() has not settled
NoBody == [kind |-> "none", error |-> SyntaxError, value |-> Null]

\* the locals of the step function that has just returned: they are what the
\* flow stopped on when it returns on a failed step, and gone when the next
\* step function is called
StepLocals(stepResult, settled) ==
    IF stepResult.success
    THEN response' = NoResponse /\ body' = NoBody
    ELSE response' = response /\ body' = settled

\* the call whose promise the invocation is awaiting: the last one issued
Awaited == Len(calls)

\* a slip: the guard written as `accessToken === undefined`
MissingTokenOnlyUndefined == getAccessToken = Undefined

\* if (!accessToken)
MissingToken == ~Truthy(getAccessToken)

\* the return of runDiagnosticFlow when the access token is missing
NotConfigured ==
    [success |-> FALSE, message |-> "HubSpot access token is not configured", steps |-> <<>>]

\* runDiagnosticFlow from its entry to the first await (inside createContact)
Invoke(fd, ne) ==
    /\ pc \in {"idle", "done", "thrown", "hs_done"}
    /\ formData' = fd
    /\ notificationEmail' = ne
    /\ steps' = <<>>
    /\ contactId' = Undefined
    /\ dealId' = Undefined
    /\ dealName' = Undefined
    /\ response' = NoResponse
    /\ body' = NoBody
    /\ IF MissingToken
       THEN /\ result' = NotConfigured
            /\ pc' = "done"
            /\ calls' = <<>>
            /\ pending' = {}
       ELSE /\ result' = NoResult
            /\ calls' = <<ContactCall(fd)>>
            /\ pending' = {1}
            /\ pc' = "contact_fetch"
    /\ UNCHANGED <<envVars, webhookVars, testVars>>

\* a slip: a failed contact creation is tried again instead of returned
AfterCreateContactRetrying(contactResult) ==
    /\ IF ~contactResult.success
       THEN /\ calls' = Append(calls, ContactCall(formData))
            /\ pending' = (pending \ {Awaited}) \cup {Len(calls) + 1}
            /\ pc' = "contact_fetch"
            /\ UNCHANGED <<steps, contactId>>
       ELSE /\ steps' = Append(steps, contactResult)
            /\ contactId' = DataId(contactResult)
            /\ calls' = Append(calls, DealCall(formData.firstName, formData.lastName))
            /\ pending' = (pending \ {Awaited}) \cup {Len(calls) + 1}
            /\ pc' = "deal_fetch"
    /\ UNCHANGED <<formData, notificationEmail, dealId, dealName, result, envVars, webhookVars, testVars>>

\* runDiagnosticFlow from the return of createContact to the next await
AfterCreateContact(contactResult) ==
    LET pushed == Append(steps, contactResult) IN
    /\ steps' = pushed
    /\ IF ~contactResult.success
       THEN /\ result' = [ success |-> FALSE, message |-> "Flow failed at: Create Contact",
                           steps |-> pushed ]
            /\ pc' = "done"
            /\ pending' = pending \ {Awaited}
            /\ UNCHANGED <<calls, contactId>>
       ELSE /\ contactId' = DataId(contactResult)
            /\ calls' = Append(calls, DealCall(formData.firstName, formData.lastName))
            /\ pending' = (pending \ {Awaited}) \cup {Len(calls) + 1}
            /\ pc' = "deal_fetch"
            /\ UNCHANGED result
    /\ UNCHANGED <<formData, notificationEmail, dealId, dealName, envVars, webhookVars, testVars>>

\* createContact: `await fetch(...)` settles
ContactFetchReturn(fetched) ==
    /\ pc = "contact_fetch"
    /\ IF fetched.kind = "rejected"
       THEN AfterCreateContact(createContactCaught(fetched.error)) /\ UNCHANGED <<response, body>>
       ELSE /\ response' = [ok |-> fetched.ok, status |-> fetched.status]
            /\ pc' = "contact_json"
            /\ UNCHANGED <<formData, notificationEmail, steps, contactId, dealId, dealName,
                           body, result, calls, pending, envVars, webhookVars, testVars>>

\* createContact: `await response.json()` settles
ContactJsonReturn(parsed) ==
    /\ pc = "contact_json"
    /\ AfterCreateContact(createContactParsed(response, parsed))
    /\ StepLocals(createContactParsed(response, parsed), parsed)

\* a slip: the abort of step 2 pasted from step 1 with its message
AfterCreateDealMislabelled(dealResult) ==
    LET pushed == Append(steps, dealResult) IN
    /\ steps' = pushed
    /\ IF ~dealResult.success
       THEN /\ result' = [ success |-> FALSE, message |-> "Flow failed at: Create Contact",
                           steps |-> pushed ]
            /\ pc' = "done"
            /\ pending' = pending \ {Awaited}
            /\ UNCHANGED <<calls, dealId, dealName>>
       ELSE /\ dealId' = DataId(dealResult)
            /\ dealName' = DataName(dealResult)
            /\ calls' = Append(calls, AssociateCall(DataId(dealResult), contactId))
            /\ pending' = (pending \ {Awaited}) \cup {Len(calls) + 1}
            /\ pc' = "assoc_fetch"
            /\ UNCHANGED result
    /\ UNCHANGED <<formData, notificationEmail, contactId, envVars, webhookVars, testVars>>

\* runDiagnosticFlow from the return of createDeal to the next await
AfterCreateDeal(dealResult) ==
    LET pushed == Append(steps, dealResult) IN
    /\ steps' = pushed
    /\ IF ~dealResult.success
       THEN /\ result' = [ success |-> FALSE, message |-> "Flow failed at: Create Deal",
                           steps |-> pushed ]
            /\ pc' = "done"
            /\ pending' = pending \ {Awaited}
            /\ UNCHANGED <<calls, dealId, dealName>>
       ELSE /\ dealId' = DataId(dealResult)
            /\ dealName' = DataName(dealResult)
            /\ calls' = Append(calls, AssociateCall(DataId(dealResult), contactId))
            /\ pending' = (pending \ {Awaited}) \cup {Len(calls) + 1}
            /\ pc' = "assoc_fetch"
            /\ UNCHANGED result
    /\ UNCHANGED <<formData, notificationEmail, contactId, envVars, webhookVars, testVars>>

\* createDeal: `await fetch(...)` settles
DealFetchReturn(fetched) ==
    /\ pc = "deal_fetch"
    /\ IF fetched.kind = "rejected"
       THEN AfterCreateDeal(createDealCaught(fetched.error)) /\ UNCHANGED <<response, body>>
       ELSE /\ response' = [ok |-> fetched.ok, status |-> fetched.status]
            /\ pc' = "deal_json"
            /\ UNCHANGED <<formData, notificationEmail, steps, contactId, dealId, dealName,
                           body, result, calls, pending, envVars, webhookVars, testVars>>

\* createDeal: `await response.json()` settles
DealJsonReturn(parsed) ==
    /\ pc = "deal_json"
    /\ AfterCreateDeal(createDealParsed(response, parsed, formData.firstName, formData.lastName))
    /\ StepLocals(createDealParsed(response, parsed, formData.firstName, formData.lastName), parsed)

\* a slip: the early return after a failed association is missing
AfterAssociateNoAbort(associationResult) ==
    /\ steps' = Append(steps, associationResult)
    /\ pending' = pending \ {Awaited}
    /\ pc' = "email_import"
    /\ UNCHANGED <<formData, notificationEmail, contactId, dealId, dealName, calls, result,
                   envVars, webhookVars, testVars>>

\* runDiagnosticFlow from the return of associateDealToContact to the next
\* await, which is `await import("resend")` inside sendConfirmationEmail
AfterAssociate(associationResult) ==
    LET pushed == Append(steps, associationResult) IN
    /\ steps' = pushed
    /\ pending' = pending \ {Awaited}
    /\ IF ~associationResult.success
       THEN /\ result' = [ success |-> FALSE,
                           message |-> "Flow failed at: Associate Deal to Contact",
                           steps |-> pushed ]
            /\ pc' = "done"
       ELSE /\ pc' = "email_import"
            /\ UNCHANGED result
    /\ UNCHANGED <<formData, notificationEmail, contactId, dealId, dealName, calls,
                   envVars, webhookVars, testVars>>

\* associateDealToContact: `await fetch(...)` settles
AssociateFetchReturn(fetched) ==
    /\ pc = "assoc_fetch"
    /\ IF fetched.kind = "rejected"
       THEN AfterAssociate(associateCaught(fetched.error)) /\ UNCHANGED <<response, body>>
       ELSE IF fetched.ok
       THEN AfterAssociate(associateOk(dealId, contactId)) /\ UNCHANGED <<response, body>>
       ELSE /\ response' = [ok |-> fetched.ok, status |-> fetched.status]
            /\ pc' = "assoc_json"
            /\ UNCHANGED <<formData, notificationEmail, steps, contactId, dealId, dealName,
                           body, result, calls, pending, envVars, webhookVars, testVars>>

\* associateDealToContact: `await response.json().catch(() => ({}))` settles
AssociateJsonReturn(parsed) ==
    /\ pc = "assoc_json"
    /\ AfterAssociate(associateFailed(response, parsed))
    /\ StepLocals(associateFailed(response, parsed), parsed)

\* a slip: steps.some((s) => s.success)
SomeSuccessful(all) == \E i \in 1..Len(all) : all[i].success

\* steps.every((s) => s.success)
AllSuccessful(all) == \A i \in 1..Len(all) : all[i].success

\* the summary of the last return of runDiagnosticFlow
SummaryOf(associationResult, emailResult) ==
    [ contact |-> [ id |-> contactId, email |-> formData.email,
                    firstName |-> formData.firstName, lastName |-> formData.lastName ],
      deal |-> [id |-> dealId, name |-> dealName],
      association |-> IF associationResult.success THEN "success" ELSE "failed",
      emailSent |-> emailResult.success,
      emailId |-> DataId(emailResult) ]

\* a slip: the email step left out of the aggregate, as if it were cosmetic
CompletedEmailIgnored(all, associationResult, emailResult) ==
    [ success |-> AllSuccessful(SubSeq(all, 1, 3)),
      message |-> IF AllSuccessful(SubSeq(all, 1, 3))
                  THEN "Full diagnostic flow completed successfully!"
                  ELSE "Flow completed with some errors",
      steps |-> all,
      summary |-> SummaryOf(associationResult, emailResult) ]

\* a slip: the summary built only when every step succeeded
CompletedSummaryOnSuccess(all, associationResult, emailResult) ==
    IF AllSuccessful(all)
    THEN [ success |-> TRUE, message |-> "Full diagnostic flow completed successfully!",
           steps |-> all, summary |-> SummaryOf(associationResult, emailResult) ]
    ELSE [ success |-> FALSE, message |-> "Flow completed with some errors", steps |-> all ]

\* the last return of runDiagnosticFlow, with the summary
Completed(all, associationResult, emailResult) ==
    [ success |-> AllSuccessful(all),
      message |-> IF AllSuccessful(all)
                  THEN "Full diagnostic flow completed successfully!"
                  ELSE "Flow completed with some errors",
      steps |-> all,
      summary |-> SummaryOf(associationResult, emailResult) ]

\* runDiagnosticFlow from the return of sendConfirmationEmail to its own return
AfterSendEmail(emailResult) ==
    LET pushed == Append(steps, emailResult) IN
    /\ steps' = pushed
    /\ result' = Completed(pushed, steps[3], emailResult)
    /\ pc' = "done"
    /\ UNCHANGED <<formData, notificationEmail, contactId, dealId, dealName, response,
                   body, envVars, webhookVars, testVars>>

\* a slip: the guard written as apiKey === undefined
NoApiKeyOnlyUndefined == RESEND_API_KEY = Undefined

\* if (!apiKey)
NoApiKey == ~Truthy(RESEND_API_KEY)

\* sendConfirmationEmail: `await import("resend")` settles.  The import and
\* `new Resend(apiKey)` stand before the try block: a rejected import leaves
\* sendConfirmationEmail, and with it runDiagnosticFlow, as a rejection.
ImportReturn(imported) ==
    /\ pc = "email_import"
    /\ IF imported = "rejected"
       THEN /\ pc' = "thrown"
            /\ UNCHANGED <<formData, notificationEmail, steps, contactId, dealId, dealName,
                           response, body, result, calls, pending, envVars, webhookVars, testVars>>
       ELSE IF NoApiKey
       THEN AfterSendEmail(sendEmailNoKey) /\ UNCHANGED <<calls, pending>>
       ELSE /\ calls' = Append(calls, EmailCall(notificationEmail,
                                  [ email |-> formData.email, firstName |-> formData.firstName,
                                    lastName |-> formData.lastName ],
                                  [id |-> dealId, name |-> dealName]))
            /\ pending' = pending \cup {Len(calls) + 1}
            /\ pc' = "email_send"
            /\ UNCHANGED <<formData, notificationEmail, steps, contactId, dealId, dealName,
                           response, body, result, envVars, webhookVars, testVars>>

\* sendConfirmationEmail: `await resend.emails.send(...)` settles
EmailSendReturn(sent) ==
    /\ pc = "email_send"
    /\ AfterSendEmail(sendEmailSettled(sent, notificationEmail))
    /\ pending' = pending \ {Awaited}
    /\ UNCHANGED calls

---------------------------------------------------------------------------
(* createHubSpotContact, the entry point kept for backwards compatibility. *)

\* the return of createHubSpotContact: success, message and data of the
\* StepResult of createContact
HubSpotContactResult(stepResult) ==
    IF "data" \in DOMAIN stepResult
    THEN [success |-> stepResult.success, message |-> stepResult.message,
          data |-> stepResult.data]
    ELSE [success |-> stepResult.success, message |-> stepResult.message]

\* createHubSpotContact from its entry to the first await (inside createContact)
InvokeCreateHubSpotContact(fd) ==
    /\ pc \in {"idle", "done", "thrown", "hs_done"}
    /\ formData' = fd
    /\ notificationEmail' = ""
    /\ steps' = <<>>
    /\ contactId' = Undefined
    /\ dealId' = Undefined
    /\ dealName' = Undefined
    /\ response' = NoResponse
    /\ body' = NoBody
    /\ result' = NoResult
    /\ calls' = <<ContactCall(fd)>>
    /\ pending' = {1}
    /\ pc' = "hs_fetch"
    /\ UNCHANGED <<envVars, webhookVars, testVars>>

\* createHubSpotContact from the return of createContact to its own return
AfterHubSpotContact(stepResult) ==
    /\ result' = HubSpotContactResult(stepResult)
    /\ pending' = pending \ {Awaited}
    /\ pc' = "hs_done"
    /\ UNCHANGED <<formData, notificationEmail, steps, contactId, dealId, dealName, calls,
                   envVars, webhookVars, testVars>>

\* createContact called by createHubSpotContact: `await fetch(...)` settles
HubSpotContactFetchReturn(fetched) ==
    /\ pc = "hs_fetch"
    /\ IF fetched.kind = "rejected"
       THEN AfterHubSpotContact(createContactCaught(fetched.error)) /\ UNCHANGED <<response, body>>
       ELSE /\ response' = [ok |-> fetched.ok, status |-> fetched.status]
            /\ pc' = "hs_json"
            /\ UNCHANGED <<formData, notificationEmail, steps, contactId, dealId, dealName,
                           body, result, calls, pending, envVars, webhookVars, testVars>>

\* createContact called by createHubSpotContact: `await response.json()` settles
HubSpotContactJsonReturn(parsed) ==
    /\ pc = "hs_json"
    /\ AfterHubSpotContact(createContactParsed(response, parsed))
    /\ body' = parsed
    /\ UNCHANGED response

---------------------------------------------------------------------------
(* The webhook route.  A WebhookEntry is a record with id, payload and     *)
(* receivedAt.  crypto.randomUUID() never repeats an id: the id is the     *)
(* serial number of the call that made it.  receivedAt is the instant      *)
(* new Date() read; the wall clock does not run backwards.                 *)

\* const MAX_WEBHOOKS
MAX_WEBHOOKS == 5

\* the value of lastResponse while no handler has answered
NoAnswer == [op |-> "none"]

\* the JSON object a POST request carries
PayloadOf(r) == [event |-> "contact.created", n |-> r.request]

\* a slip: webhookStorage.push(entry) and shift()
Pushed(storage, entry) ==
    LET longer == Append(storage, entry) IN
    IF Len(longer) > MAX_WEBHOOKS THEN Tail(longer) ELSE longer

\* a slip: the length test written with >=, which evicts one entry too early
UnshiftedEvictingEarly(storage, entry) ==
    LET longer == <<entry>> \o storage IN
    IF Len(longer) >= MAX_WEBHOOKS THEN SubSeq(longer, 1, Len(longer) - 1) ELSE longer

\* webhookStorage.unshift(entry), then pop() when longer than MAX_WEBHOOKS
Unshifted(storage, entry) ==
    LET longer == <<entry>> \o storage IN
    IF Len(longer) > MAX_WEBHOOKS THEN SubSeq(longer, 1, Len(longer) - 1) ELSE longer

\* the instant the entry of a POST request is stamped with: the one at which
\* its body parse has settled
Now == clock

\* POST: a request arrives and the handler runs to `await request.json()`
PostArrive(malformed) ==
    /\ arrived < MaxPosts
    /\ Cardinality(parsing) < MaxParsing
    /\ arrived' = arrived + 1
    /\ parsing' = parsing \cup {[request |-> arrived + 1, malformed |-> malformed]}
    /\ UNCHANGED <<webhookStorage, uuids, clock, lastResponse, envVars, flowVars, testVars>>

\* POST: `await request.json()` settles with the payload and the handler
\* runs to its return
PostParsed(r) ==
    LET entry == [id |-> uuids + 1, payload |-> PayloadOf(r), receivedAt |-> Now] IN
    /\ r \in parsing
    /\ ~r.malformed
    /\ parsing' = parsing \ {r}
    /\ uuids' = uuids + 1
    /\ webhookStorage' = Unshifted(webhookStorage, entry)
    /\ lastResponse' = [ op |-> "POST", request |-> r.request, status |-> 200, success |-> TRUE,
                         message |-> "Webhook received successfully",
                         id |-> entry.id, receivedAt |-> entry.receivedAt ]
    /\ UNCHANGED <<arrived, clock, envVars, flowVars, testVars>>

\* a slip: the catch block answers without { status: 400 }
PostRejectedStatusOk(r) ==
    /\ r \in parsing
    /\ r.malformed
    /\ parsing' = parsing \ {r}
    /\ lastResponse' = [ op |-> "POST", request |-> r.request, status |-> 200, success |-> FALSE,
                         message |-> "Failed to process webhook",
                         error |-> SyntaxError.message ]
    /\ UNCHANGED <<webhookStorage, arrived, uuids, clock, envVars, flowVars, testVars>>

\* POST: `await request.json()` rejects and the handler runs its catch block
PostRejected(r) ==
    /\ r \in parsing
    /\ r.malformed
    /\ parsing' = parsing \ {r}
    /\ lastResponse' = [ op |-> "POST", request |-> r.request, status |-> 400, success |-> FALSE,
                         message |-> "Failed to process webhook",
                         error |-> SyntaxError.message ]
    /\ UNCHANGED <<webhookStorage, arrived, uuids, clock, envVars, flowVars, testVars>>

\* a slip: count answered as the capacity instead of the length
GetCountingCapacity ==
    /\ lastResponse' = [ op |-> "GET", status |-> 200, success |-> TRUE,
                         webhooks |-> webhookStorage, count |-> MAX_WEBHOOKS ]
    /\ UNCHANGED <<webhookStorage, parsing, arrived, uuids, clock, envVars, flowVars, testVars>>

\* GET: the handler has no await and runs from entry to return
GET ==
    /\ lastResponse' = [ op |-> "GET", status |-> 200, success |-> TRUE,
                         webhooks |-> webhookStorage, count |-> Len(webhookStorage) ]
    /\ UNCHANGED <<webhookStorage, parsing, arrived, uuids, clock, envVars, flowVars, testVars>>

\* time passes
Tick ==
    /\ clock < MaxClock
    /\ clock' = clock + 1
    /\ UNCHANGED <<webhookStorage, parsing, arrived, uuids, lastResponse, envVars, flowVars, testVars>>

---------------------------------------------------------------------------
(* sendTestEmail.  A ResendResponse is a record with success, message and, *)
(* when the code sets it, data.                                            *)

\* the request sendTestEmail hands to resend.emails.send
TestEmailCall(to) ==
    [ api |-> "email-send", key |-> RESEND_API_KEY, to |-> to,
      subject |-> "QuantaLynk POC - Test Email", sentAt |-> clock ]

\* a slip: the address only tested for being empty
InvalidAddressOnlyEmpty(to) == ~Truthy(to)

\* !toEmail || !toEmail.includes("@")
InvalidAddress(to) == ~Truthy(to) \/ ~Includes(to, "@")

\* sendTestEmail: the return when RESEND_API_KEY is falsy
testEmailNoKey == [success |-> FALSE, message |-> "Resend API key is not configured"]

\* sendTestEmail: the return when the address is rejected
testEmailInvalidAddress == [success |-> FALSE, message |-> "Please enter a valid email address"]

\* sendTestEmail: from await resend.emails.send(...) to the return
sendTestEmailSettled(sent, to) ==
    IF sent.kind = "rejected"
    THEN [ success |-> FALSE, message |-> CatchMessage(sent.thrown, "Failed to send email") ]
    ELSE IF sent.error # Null
    THEN [ success |-> FALSE,
           message |-> OrElse(Get(sent.error, "message"), "Failed to send email"),
           data |-> sent.error ]
    ELSE [ success |-> TRUE,
           message |-> "Test email sent successfully to " \o to \o "!",
           data |-> [ id |-> IF sent.data = Null THEN Undefined ELSE Get(sent.data, "id"),
                      sentTo |-> to ] ]

\* sendTestEmail from its entry to its first return or to the await of the send
sendTestEmail(to) ==
    /\ testPc \in {"idle", "done"}
    /\ testToEmail' = to
    /\ IF NoApiKey
       THEN /\ testResult' = testEmailNoKey
            /\ testCalls' = <<>>
            /\ testPc' = "done"
       ELSE IF InvalidAddress(to)
       THEN /\ testResult' = testEmailInvalidAddress
            /\ testCalls' = <<>>
            /\ testPc' = "done"
       ELSE /\ testResult' = NoResult
            /\ testCalls' = <<TestEmailCall(to)>>
            /\ testPc' = "send"
    /\ UNCHANGED <<envVars, flowVars, webhookVars>>

\* sendTestEmail: await resend.emails.send(...) settles
TestEmailSendReturn(sent) ==
    /\ testPc = "send"
    /\ testResult' = sendTestEmailSettled(sent, testToEmail)
    /\ testPc' = "done"
    /\ UNCHANGED <<testToEmail, testCalls, envVars, flowVars, webhookVars>>

---------------------------------------------------------------------------
(* Specifications.                                                         *)

\* process.env as the deployment sets it
EnvInit ==
    /\ HUBSPOT_ACCESS_TOKEN \in EnvValues
    /\ RESEND_API_KEY \in EnvValues

\* no invocation of runDiagnosticFlow yet
FlowInit ==
    /\ pc = "idle"
    /\ formData = [email |-> "", firstName |-> "", lastName |-> ""]
    /\ notificationEmail = ""
    /\ steps = <<>>
    /\ contactId = Undefined
    /\ dealId = Undefined
    /\ dealName = Undefined
    /\ response = NoResponse
    /\ body = NoBody
    /\ result = NoResult
    /\ calls = <<>>
    /\ pending = {}

\* the module of the webhook route has just been loaded
WebhookInit ==
    /\ webhookStorage = <<>>
    /\ parsing = {}
    /\ arrived = 0
    /\ uuids = 0
    /\ clock = 0
    /\ lastResponse = NoAnswer

\* no invocation of sendTestEmail yet
TestEmailInit ==
    /\ testToEmail = ""
    /\ testPc = "idle"
    /\ testCalls = <<>>
    /\ testResult = NoResult

Init == EnvInit /\ FlowInit /\ WebhookInit /\ TestEmailInit

\* the steps of the diagnostic flow
Next ==
    \/ \E fd \in FormInputs, ne \in NotificationEmails : Invoke(fd, ne)
    \/ \E fetched \in FetchOutcomes(201) : ContactFetchReturn(fetched)
    \/ \E parsed \in JsonOutcomes(IF response.ok THEN ContactBodies(formData) ELSE ErrorBodies) :
          ContactJsonReturn(parsed)
    \/ \E fetched \in FetchOutcomes(201) : DealFetchReturn(fetched)
    \/ \E parsed \in JsonOutcomes(IF response.ok THEN DealBodies ELSE ErrorBodies) :
          DealJsonReturn(parsed)
    \/ \E fetched \in FetchOutcomes(200) : AssociateFetchReturn(fetched)
    \/ \E parsed \in JsonOutcomes(ErrorBodies) : AssociateJsonReturn(parsed)
    \/ \E imported \in ImportOutcomes : ImportReturn(imported)
    \/ \E sent \in SendOutcomes : EmailSendReturn(sent)

Spec == Init /\ [][Next]_vars

\* an awaited promise settles: every step of the flow but its invocation
Settle ==
    \/ \E fetched \in FetchOutcomes(201) : ContactFetchReturn(fetched)
    \/ \E parsed \in JsonOutcomes(IF response.ok THEN ContactBodies(formData) ELSE ErrorBodies) :
          ContactJsonReturn(parsed)
    \/ \E fetched \in FetchOutcomes(201) : DealFetchReturn(fetched)
    \/ \E parsed \in JsonOutcomes(IF response.ok THEN DealBodies ELSE ErrorBodies) :
          DealJsonReturn(parsed)
    \/ \E fetched \in FetchOutcomes(200) : AssociateFetchReturn(fetched)
    \/ \E parsed \in JsonOutcomes(ErrorBodies) : AssociateJsonReturn(parsed)
    \/ \E imported \in ImportOutcomes : ImportReturn(imported)
    \/ \E sent \in SendOutcomes : EmailSendReturn(sent)

\* the diagnostic flow when every promise it awaits eventually settles
FairSpec == Init /\ [][Next]_vars /\ WF_vars(Settle)

\* the steps of createHubSpotContact
HubSpotContactNext ==
    \/ \E fd \in FormInputs : InvokeCreateHubSpotContact(fd)
    \/ \E fetched \in FetchOutcomes(201) : HubSpotContactFetchReturn(fetched)
    \/ \E parsed \in JsonOutcomes(IF response.ok THEN ContactBodies(formData) ELSE ErrorBodies) :
          HubSpotContactJsonReturn(parsed)

\* both entry points of the CRM actions
EntryNext == Next \/ HubSpotContactNext

EntrySpec == Init /\ [][EntryNext]_vars

\* the steps of the webhook route
WebhookNext ==
    \/ \E malformed \in BOOLEAN : PostArrive(malformed)
    \/ \E r \in parsing : PostParsed(r)
    \/ \E r \in parsing : PostRejected(r)
    \/ GET
    \/ Tick

\* the webhook route reads no environment variable
WebhookStart ==
    /\ HUBSPOT_ACCESS_TOKEN = Undefined
    /\ RESEND_API_KEY = Undefined
    /\ FlowInit
    /\ WebhookInit
    /\ TestEmailInit

WebhookSpec == WebhookStart /\ [][WebhookNext]_vars

\* the steps of sendTestEmail
TestEmailNext ==
    \/ \E to \in Addresses : sendTestEmail(to)
    \/ \E sent \in SendOutcomes : TestEmailSendReturn(sent)

TestEmailSpec == Init /\ [][TestEmailNext]_vars

---------------------------------------------------------------------------
(* Properties of the diagnostic flow, checked under Spec.                  *)

\* the labels of the four steps, in the order of the flow
StepLabels ==
    <<"Create Contact", "Create Deal", "Associate Deal to Contact", "Send Confirmation Email">>

\* the four external calls, in the order of the flow
CallOrder == <<"contact-create", "deal-create", "associate", "email-send">>

\* the invocation has returned a DiagnosticFlowResult
Returned == pc = "done"

\* the first n steps were pushed and each succeeded
FirstSucceeded(n) == Len(steps) >= n /\ \A i \in 1..n : steps[i].success

\* C1: when the CRM credential is absent (unset or empty), the invocation
\* issues no external call at all and returns success=false with an empty
\* steps list and no summary.
C1_MissingCredential ==
    ~Truthy(HUBSPOT_ACCESS_TOKEN) =>
        /\ calls = <<>>
        /\ pending = {}
        /\ pc \in {"idle", "done"}
        /\ Returned => /\ result.success = FALSE
                       /\ result.steps = <<>>
                       /\ "summary" \notin DOMAIN result

\* C1 witness: an invocation has returned with the credential unset.
C1_Witness == HUBSPOT_ACCESS_TOKEN = Undefined /\ Returned /\ result.steps = <<>>

\* C2: once one of the first three steps has returned success=false, the
\* invocation has returned, the calls of the later steps were not issued, the
\* email step was not entered and the result has no summary.
C2_AbortOnFailure ==
    \A i \in 1..Len(steps) :
        (i <= 3 /\ ~steps[i].success) =>
            /\ Returned
            /\ Len(steps) = i
            /\ Len(calls) = i
            /\ \A k \in 1..Len(calls) : calls[k].api = CallOrder[k]
            /\ pending = {}
            /\ "summary" \notin DOMAIN result

\* C2 witness: the association step failed after two successful steps.
C2_Witness == Len(steps) = 3 /\ FirstSucceeded(2) /\ ~steps[3].success /\ Returned

C4_Success ==
    Returned =>
        /\ (Len(result.steps) = 4 /\ \A i \in 1..4 : result.steps[i].success) =>
               /\ result.success = TRUE
               /\ result.summary.association = "success"
               /\ result.summary.emailSent = TRUE
        /\ result.success =>
               /\ Len(result.steps) = 4
               /\ \A i \in 1..4 : result.steps[i].success

\* C4 witness: a result with success = true.
C4_Witness == Returned /\ result.success /\ Len(result.steps) = 4

\* C5: every association call carries as deal id the id the Create Deal step
\* of this invocation returned and as contact id the id the Create Contact
\* step of this invocation returned, in its arguments and in its URL.
C5_AssociationIds ==
    \A k \in 1..Len(calls) :
        calls[k].api = "associate" =>
            /\ Len(steps) >= 2
            /\ calls[k].dealId = DataId(steps[2])
            /\ calls[k].contactId = DataId(steps[1])
            /\ calls[k].url = "/crm/v3/objects/deals/" \o Str(DataId(steps[2]))
                              \o "/associations/contacts/" \o Str(DataId(steps[1]))
                              \o "/deal_to_contact"

\* C5 witness: an association call whose two ids are present and differ.
C5_Witness ==
    /\ Len(calls) >= 3
    /\ calls[3].api = "associate"
    /\ calls[3].dealId \in Ids
    /\ calls[3].contactId \in Ids
    /\ calls[3].dealId # calls[3].contactId

\* C6: the labels of the steps list are a prefix of the four labels in the
\* order of the flow, every step before a later one among the first three
\* succeeded (a failed one of the first three is the last element), and the
\* result returns that list.
C6_StepOrder ==
    /\ Len(steps) <= 4
    /\ \A i \in 1..Len(steps) : steps[i].step = StepLabels[i]
    /\ \A i \in 1..Len(steps) : (i <= 3 /\ i < Len(steps)) => steps[i].success
    /\ Returned => result.steps = steps

\* C6 witness: a result of two steps whose second failed on a rejected fetch.
C6_Witness ==
    /\ Returned
    /\ Len(result.steps) = 2
    /\ ~result.steps[2].success
    /\ "data" \notin DOMAIN result.steps[2]

\* C7: a result holds a summary if and only if its steps list has length
\* four.
C7_SummaryIffFourSteps ==
    Returned => (("summary" \in DOMAIN result) <=> (Len(result.steps) = 4))

\* C7 witness: a result of four steps with a failed email step and a summary.
C7_Witness ==
    /\ Returned
    /\ Len(result.steps) = 4
    /\ ~result.steps[4].success
    /\ "summary" \in DOMAIN result

\* C8: runDiagnosticFlow never throws: no invocation ends as a rejection,
\* and every invocation that ended returned a record with success, message
\* and steps.
C8_NeverThrows ==
    /\ pc # "thrown"
    /\ Returned => {"success", "message", "steps"} \subseteq DOMAIN result

\* C9: the external calls of an invocation are a prefix of contact-create,
\* deal-create, associate, email-send (so each is issued at most once), and
\* at most one of them, the last one issued, is awaiting its result.
C9_SequentialCalls ==
    /\ Len(calls) <= 4
    /\ \A k \in 1..Len(calls) : calls[k].api = CallOrder[k]
    /\ Cardinality(pending) <= 1
    /\ pending \subseteq {Len(calls)}

\* C9 witness: the fourth call is in flight.
C9_Witness == Len(calls) = 4 /\ pending = {4}

LastStep == steps[Len(steps)]

\* the CRM answered the last step with a non-OK status
UpstreamRefused == Len(steps) \in 1..3 /\ ~LastStep.success /\ response.status # 0 /\ ~response.ok

\* the CRM's error body carried a message
UpstreamMessageGiven ==
    /\ body.kind = "value"
    /\ body.value # Null
    /\ Truthy(Get(body.value, "message"))

\* C16: a non-success upstream response yields a failed StepResult with a
\* non-empty message: for a CRM step answered with a non-OK status, the
\* message of the error body when it has one, otherwise
\* "HubSpot API error: <status>"; for the email step with a provider-reported
\* error, the provider's message when it has one, otherwise
\* "Failed to send email".
C16_UpstreamFailureMessage ==
    /\ UpstreamRefused =>
          /\ LastStep.message # ""
          /\ LastStep.message =
                IF UpstreamMessageGiven THEN body.value.message
                ELSE "HubSpot API error: " \o ToString(response.status)
    /\ (Len(steps) = 4 /\ ~steps[4].success /\ "data" \in DOMAIN steps[4]) =>
          /\ steps[4].message # ""
          /\ steps[4].message =
                IF Truthy(Get(steps[4].data, "message")) THEN steps[4].data.message
                ELSE "Failed to send email"

\* C17: whenever a summary is present, each of its fields equals the value
\* in the data of the corresponding step of the same result: the contact's
\* id, email, first and last name those of steps[0].data, the deal's id and
\* name those of steps[1].data, and emailId the id of steps[3].data.
C17_SummaryCopiesStepData ==
    (Returned /\ "summary" \in DOMAIN result) =>
        /\ result.summary.contact.id = result.steps[1].data.id
        /\ result.summary.contact.email = result.steps[1].data.email
        /\ result.summary.contact.firstName = result.steps[1].data.firstName
        /\ result.summary.contact.lastName = result.steps[1].data.lastName
        /\ result.summary.deal.id = result.steps[2].data.id
        /\ result.summary.deal.name = result.steps[2].data.name
        /\ result.summary.emailId = DataId(result.steps[4])

\* C18: a flow that returns after fewer than four steps (step 1, 2 or 3
\* failed) returns success=false with the message "Flow failed at: " followed
\* by the label of the last element of steps, which is the only failed step;
\* a failed step among the first three always ends the flow that way, and
\* "Flow completed with some errors" is returned only with four steps.
C18_AbortMessage ==
    Returned =>
        LET n == Len(result.steps) IN
        /\ n \in 1..3 =>
              /\ result.success = FALSE
              /\ result.message = "Flow failed at: " \o result.steps[n].step
              /\ result.steps[n].step = StepLabels[n]
              /\ ~result.steps[n].success
              /\ \A i \in 1..(n - 1) : result.steps[i].success
              /\ "summary" \notin DOMAIN result
        /\ (\E i \in 1..n : i <= 3 /\ ~result.steps[i].success) => n <= 3
        /\ result.message = "Flow completed with some errors" => n = 4

\* C18 witness: the flow returned on a failed deal creation.
C18_Witness ==
    /\ Returned
    /\ Len(result.steps) = 2
    /\ ~result.steps[2].success
    /\ result.message = "Flow failed at: Create Deal"

\* the invocation is between its call and its end
InFlight == pc \notin {"idle", "done", "thrown"}

\* C19: when every issued call eventually returns, every invocation
\* eventually returns a result, having issued at most four external calls;
\* and while an issued call stays outstanding no result is returned (nothing
\* but the call's return moves the invocation forward).
C19_EventuallyReturns ==
    /\ [](Len(calls) <= 4)
    /\ [][(pending # {} /\ pending' = pending) => ~Returned']_vars
    /\ (InFlight ~> Returned)

\* the body of the last step's response did not parse
BodyUnparsable == Len(steps) \in 1..3 /\ body.kind = "rejected"

\* C20: in Create Contact and Create Deal a body that does not parse makes
\* the step fail whatever the status was (a success status included), with
\* the parser's exception message and no data, and the flow returns on that
\* step; in the association step an unparsable error body counts as {} and
\* the message is the status fallback.
C20_BodyParsedBeforeStatus ==
    BodyUnparsable =>
        /\ response.status # 0
        /\ LastStep.success = FALSE
        /\ Returned
        /\ result.steps = steps
        /\ result.message = "Flow failed at: " \o LastStep.step
        /\ IF Len(steps) \in 1..2
           THEN /\ LastStep.message = SyntaxError.message
                /\ "data" \notin DOMAIN LastStep
           ELSE /\ ~response.ok
                /\ LastStep.data = EmptyObject
                /\ LastStep.message = "HubSpot API error: " \o ToString(response.status)

\* C20 witness: contact creation was answered with a success status and a
\* body that did not parse, and the flow returned on the failed step.
C20_Witness ==
    /\ BodyUnparsable
    /\ Len(steps) = 1
    /\ response.ok
    /\ Returned

---------------------------------------------------------------------------
(* Properties of the webhook route, checked under WebhookSpec.             *)

\* C10: under every interleaving of POST and GET handlers, webhookStorage
\* holds at most MAX_WEBHOOKS entries, each entry was inserted after the
\* entries behind it, and receivedAt never increases from head to tail.
C10_BoundedNewestFirst ==
    /\ Len(webhookStorage) <= MAX_WEBHOOKS
    /\ \A i \in 1..Len(webhookStorage) : \A j \in 1..Len(webhookStorage) :
           i < j => /\ webhookStorage[i].id > webhookStorage[j].id
                    /\ webhookStorage[i].receivedAt >= webhookStorage[j].receivedAt

\* C10 witness: the buffer is full after an eviction, and a request that
\* arrived before another was recorded after it (their body parses settled
\* in the other order), at a later instant.
C10_Witness ==
    /\ Len(webhookStorage) = MAX_WEBHOOKS
    /\ uuids > MAX_WEBHOOKS
    /\ \E i \in 1..(MAX_WEBHOOKS - 1) :
           /\ webhookStorage[i].payload.n < webhookStorage[i + 1].payload.n
           /\ webhookStorage[i].receivedAt > webhookStorage[i + 1].receivedAt

\* the smaller of two numbers
Min(a, b) == IF a < b THEN a ELSE b

\* C11: after n recorded POSTs the buffer holds min(n, MAX_WEBHOOKS) entries,
\* which are the ones recorded last, newest first; and every recording step
\* puts the payload of the request it serves at the head, keeps the entries
\* before it in their order behind it and drops at most the one oldest entry,
\* and only when the buffer was full.
C11_LastFiveNewestFirst ==
    /\ [](/\ Len(webhookStorage) = Min(uuids, MAX_WEBHOOKS)
          /\ \A i \in 1..Len(webhookStorage) : webhookStorage[i].id = uuids + 1 - i)
    /\ [][uuids' # uuids =>
            /\ Len(webhookStorage') = Min(Len(webhookStorage) + 1, MAX_WEBHOOKS)
            /\ \E r \in parsing \ parsing' : webhookStorage'[1].payload = PayloadOf(r)
            /\ \A i \in 2..Len(webhookStorage') : webhookStorage'[i] = webhookStorage[i - 1]]_vars

\* C11 witness: six payloads were recorded in the order of their arrival; the
\* buffer holds the last five and the first one is gone.
C11_Witness ==
    /\ uuids = 6
    /\ Len(webhookStorage) = 5
    /\ \A i \in 1..5 : webhookStorage[i].payload.n = 7 - i

\* C12: every GET answers success=true with the buffer as it stands, head to
\* tail, and with count equal to the length of that list (an empty list and
\* 0 while nothing was recorded), and leaves the buffer as it was.
C12_GetReturnsBuffer ==
    /\ [](lastResponse.op = "GET" =>
            /\ lastResponse.success = TRUE
            /\ lastResponse.status = 200
            /\ lastResponse.count = Len(lastResponse.webhooks)
            /\ uuids = 0 => (lastResponse.count = 0 /\ lastResponse.webhooks = <<>>))
    /\ [][(lastResponse' # lastResponse /\ lastResponse'.op = "GET") =>
            /\ lastResponse'.webhooks = webhookStorage
            /\ webhookStorage' = webhookStorage]_vars

\* C12 witness: a GET answered the full buffer after an eviction.
C12_Witness ==
    /\ lastResponse.op = "GET"
    /\ lastResponse.count = MAX_WEBHOOKS
    /\ lastResponse.webhooks = webhookStorage
    /\ uuids > MAX_WEBHOOKS

\* C13: a POST whose body does not parse is answered with status 400 and
\* success=false and leaves the buffer as it was; a POST whose body parses is
\* answered with success=true and the id and receivedAt of the entry that
\* stands at the head of the buffer right after the insert, which holds its
\* payload.
C13_PostResponses ==
    [][\A r \in parsing \ parsing' :
          /\ lastResponse'.op = "POST"
          /\ lastResponse'.request = r.request
          /\ r.malformed =>
                /\ lastResponse'.status = 400
                /\ lastResponse'.success = FALSE
                /\ webhookStorage' = webhookStorage
          /\ ~r.malformed =>
                /\ lastResponse'.status = 200
                /\ lastResponse'.success = TRUE
                /\ Len(webhookStorage') > 0
                /\ lastResponse'.id = webhookStorage'[1].id
                /\ lastResponse'.receivedAt = webhookStorage'[1].receivedAt
                /\ webhookStorage'[1].payload = PayloadOf(r)]_vars

\* C13 witness: a malformed POST was answered with 400 while the buffer was
\* full.
C13_Witness ==
    /\ lastResponse.op = "POST"
    /\ lastResponse.status = 400
    /\ Len(webhookStorage) = MAX_WEBHOOKS

---------------------------------------------------------------------------
(* Properties of the two entry points together, checked under EntrySpec.   *)

\* an entry point has returned
EntryReturned == pc \in {"done", "hs_done"}

\* C14: with the CRM credential absent (unset or empty), neither
\* runDiagnosticFlow nor createHubSpotContact issues a CRM call, and each
\* returns success=false with the message that the access token is not
\* configured.
C14_NoCallWithoutCredential ==
    ~Truthy(HUBSPOT_ACCESS_TOKEN) =>
        /\ calls = <<>>
        /\ EntryReturned =>
              /\ result.success = FALSE
              /\ result.message = "HubSpot access token is not configured"

---------------------------------------------------------------------------
(* Properties of sendTestEmail, checked under TestEmailSpec.               *)

\* the invocation of sendTestEmail has returned
TestEmailReturned == testPc = "done"

\* C21: sendTestEmail issues a call to the email provider only when the
\* email credential is present and the address is non-empty and contains
\* "@"; with the credential absent it returns the missing-credential message
\* whatever the address, with the credential present and a bad address the
\* invalid-address message; in both cases success=false and no call is made.
C21_TestEmailGuards ==
    /\ testCalls # <<>> =>
          /\ RESEND_API_KEY \notin {Undefined, ""}
          /\ testToEmail \notin {Undefined, ""}
          /\ \E i \in 1..Len(Chars(testToEmail)) : Chars(testToEmail)[i] = "@"
          /\ Len(testCalls) = 1
          /\ testCalls[1].to = testToEmail
    /\ (TestEmailReturned /\ RESEND_API_KEY \in {Undefined, ""}) =>
          /\ testResult.success = FALSE
          /\ testResult.message = "Resend API key is not configured"
          /\ testCalls = <<>>
    /\ (TestEmailReturned /\ RESEND_API_KEY \notin {Undefined, ""}
           /\ testToEmail \in {Undefined, "", "ops", "x.io"}) =>
          /\ testResult.success = FALSE
          /\ testResult.message = "Please enter a valid email address"
          /\ testCalls = <<>>

\* C21 witness: with the credential absent a well-formed address was handed
\* in and the invocation returned.
C21_Witness ==
    /\ RESEND_API_KEY = Undefined
    /\ testToEmail = "ops@x.io"
    /\ TestEmailReturned

===========================================================================
